---- MODULE Spec2Model ----
(***************************************************************************)
(* Model of lab/configs/parser.py: the configuration resolution engine.    *)
(*                                                                         *)
(* Parser.__init__ collects the class hierarchy of a configuration object  *)
(* (_get_base_classes), merges annotations, class-level values,            *)
(* calculators, instance values and caller overrides into four mappings    *)
(* (types, values, options, list_appends) and then fills in the missing    *)
(* values (__calculate_missing_values).                                    *)
(*                                                                         *)
(* Python strings (attribute names, option names) are sequences of         *)
(* characters, so that str.startswith is computed.  Python dicts are       *)
(* insertion-ordered: a dict is a sequence of <<key, value>> pairs.        *)
(***************************************************************************)
EXTENDS Integers, Sequences, FiniteSets, TLC

VARIABLES
    bases,          \* class name -> its __bases__ without object (input)
    body,           \* class name -> [annotations, dict, calculators] (input)
    configs,        \* the configuration object: [class, dict] (input)
    valuesArg,      \* the `values` argument of Parser.__init__ (input)
    class_stored,   \* per class: the entries stored in c.__dict__ since its definition
    classes,        \* the local `classes` of Parser.__init__
    types,          \* self.types
    values,         \* self.values
    options,        \* self.options
    list_appends,   \* self.list_appends
    pc,             \* position inside Parser.__init__
    err,            \* the AssertionError that ended the pass, or NoError
    run,            \* 1 in the first Parser(configs, values) call, 2 in the second
    first           \* what the first call ended with, once a second is made

vars == <<bases, body, configs, valuesArg, class_stored, classes, types, values,
          options, list_appends, pc, err, run, first>>

inputs == <<bases, body, configs, valuesArg>>

(***************************************************************************)
(* Bounds of the model.                                                    *)
(***************************************************************************)
MaxBases == 2       \* direct base classes of one class
MaxVal == 2         \* distinct integer literals used as attribute values
MaxCalcs == 2       \* calculators registered for one attribute on one class

(***************************************************************************)
(* Strings.                                                                *)
(***************************************************************************)
X == <<"x">>
Y == <<"y">>
PRIVATE == <<"_", "p">>
CALC == <<"c", "a", "l", "c">>
LIST == <<"l", "i", "s", "t">>
O1 == <<"o", "1">>
O2 == <<"o", "2">>

_CALCULATORS == <<"_", "c", "a", "l", "c", "u", "l", "a", "t", "o", "r", "s">>

RESERVED == {CALC, LIST}

StartsWith(key, ch) == Len(key) > 0 /\ key[1] = ch

(***************************************************************************)
(* Python values and type objects.                                         *)
(* A value is [type, repr]; type(v) is the class named v.type.             *)
(* A type object is [name, meta]; type(t) == type iff t.meta = "type".     *)
(***************************************************************************)
None == [type |-> "NoneType", repr |-> <<>>]
Digits == <<"1", "2", "3", "4", "5", "6", "7", "8", "9">>
IntV(n) == [type |-> "int", repr |-> <<Digits[n]>>]
StrV(s) == [type |-> "str", repr |-> s]

ClassT(name) == [name |-> name, meta |-> "type"]
IntT == ClassT("int")
NestedT == ClassT("NestedConfigs")
ListIntT == [name |-> "List[int]", meta |-> "_GenericAlias"]

TypeOf(v) == ClassT(v.type)

\* a function object a calculator was built from
FuncNames == <<"f1", "f2", "f3", "f4", "f5", "f6">>
Func(i) == [name |-> FuncNames[i], meta |-> "function"]
FuncG == [name |-> "g", meta |-> "function"]

\* ConfigFunction(func, config_names=..., option_name=..., is_append=...)
ConfigFunction(func, config_names, option_name, is_append) ==
    [func |-> func, config_names |-> config_names,
     option_name |-> option_name, is_append |-> is_append]

(***************************************************************************)
(* Insertion-ordered dicts.                                                *)
(***************************************************************************)
EmptyDict == <<>>

Has(d, k) == \E i \in 1..Len(d) : d[i][1] = k

Get(d, k) == d[CHOOSE i \in 1..Len(d) : d[i][1] = k][2]

\* d[k] = v: a present key keeps its position, a new key goes last
Put(d, k, v) ==
    IF Has(d, k)
    THEN [i \in 1..Len(d) |-> IF d[i][1] = k THEN <<k, v>> ELSE d[i]]
    ELSE Append(d, <<k, v>>)

KeysOf(d) == [i \in 1..Len(d) |-> d[i][1]]

KeySet(d) == {d[i][1] : i \in 1..Len(d)}

RECURSIVE Reverse(_)
Reverse(s) == IF s = <<>> THEN <<>> ELSE Append(Reverse(Tail(s)), Head(s))

RECURSIVE Flatten(_)
Flatten(ss) == IF ss = <<>> THEN <<>> ELSE Head(ss) \o Flatten(Tail(ss))

(***************************************************************************)
(* _get_base_classes                                                       *)
(***************************************************************************)
OBJECT == "object"

\* c.__bases__: a class written without bases has the single base object
BasesOf(c) == IF bases[c] = <<>> THEN <<OBJECT>> ELSE bases[c]

\* one pass of the two inner for-loops: the bases of every class of the
\* level, in order, object skipped
NextLevel(level) ==
    Flatten([i \in 1..Len(level) |->
                SelectSeq(BasesOf(level[i]), LAMBDA b : b # OBJECT)])

RECURSIVE WalkLevels(_, _)
WalkLevels(acc, level) ==
    IF Len(level) > 0
    THEN WalkLevels(acc \o NextLevel(level), NextLevel(level))
    ELSE acc

_get_base_classes(class_) == Reverse(WalkLevels(<<class_>>, <<class_>>))

(***************************************************************************)
(* Parser                                                                  *)
(* The registry under construction is the record                           *)
(* [types, values, options, list_appends, err]; err is the assertion that  *)
(* stopped the pass, identified by its source line and its key.            *)
(***************************************************************************)
NoError == [line |-> 0, key |-> <<>>]

AssertionError(line, k) == [line |-> line, key |-> k]

Registry ==
    [types |-> types, values |-> values, options |-> options,
     list_appends |-> list_appends, err |-> err]

\* mutant: the mappings are shared between Parser objects instead of being
\* created in __init__
SharedRegistry == [Registry EXCEPT !.err = NoError]

\* lines 45-48
EmptyRegistry ==
    [types |-> EmptyDict, values |-> EmptyDict, options |-> EmptyDict,
     list_appends |-> EmptyDict, err |-> NoError]

is_valid(key) ==
    IF StartsWith(key, "_") THEN FALSE
    ELSE IF key \in RESERVED THEN FALSE
    ELSE TRUE

\* mutant: a value already present is kept
__collect_value_keep(reg, k, v) ==
    IF ~is_valid(k) THEN reg
    ELSE LET r == IF Has(reg.values, k) THEN reg
                  ELSE [reg EXCEPT !.values = Put(reg.values, k, v)]
         IN  IF ~Has(r.types, k)
             THEN [r EXCEPT !.types = Put(r.types, k, TypeOf(v))]
             ELSE r

__collect_value(reg, k, v) ==
    IF ~is_valid(k) THEN reg
    ELSE LET r == [reg EXCEPT !.values = Put(reg.values, k, v)]
         IN  IF ~Has(r.types, k)
             THEN [r EXCEPT !.types = Put(r.types, k, TypeOf(v))]
             ELSE r

__collect_annotation(reg, k, v) ==
    IF ~is_valid(k) THEN reg
    ELSE [reg EXCEPT !.types = Put(reg.types, k, v)]

\* mutant: an option name registered again moves to the end of the table
__collect_calculator_move(reg, k, v) ==
    IF v.is_append
    THEN LET old == IF Has(reg.list_appends, k)
                    THEN Get(reg.list_appends, k) ELSE <<>>
         IN  [reg EXCEPT !.list_appends = Put(reg.list_appends, k, Append(old, v))]
    ELSE LET old == IF Has(reg.options, k)
                    THEN Get(reg.options, k) ELSE EmptyDict
             rest == SelectSeq(old, LAMBDA e : e[1] # v.option_name)
         IN  [reg EXCEPT !.options =
                  Put(reg.options, k, Append(rest, <<v.option_name, v>>))]

\* lines 100-108
__collect_calculator(reg, k, v) ==
    IF v.is_append
    THEN LET old == IF Has(reg.list_appends, k)
                    THEN Get(reg.list_appends, k) ELSE <<>>
         IN  [reg EXCEPT !.list_appends = Put(reg.list_appends, k, Append(old, v))]
    ELSE LET old == IF Has(reg.options, k)
                    THEN Get(reg.options, k) ELSE EmptyDict
         IN  [reg EXCEPT !.options =
                  Put(reg.options, k, Put(old, v.option_name, v))]

(***************************************************************************)
(* c.__dict__ of a class.  After the class statement it holds, in this     *)
(* order: the entries of the class body ('__module__', then                *)
(* '__annotations__' when the body annotates a name, then the names it     *)
(* assigns), the entries the class statement adds ('__dict__' and          *)
(* '__weakref__' for a class written without bases, then '__doc__'), and   *)
(* the calculator table, which is attached to the class after the class    *)
(* statement.  Reading c.__annotations__ (line 52) of a class whose        *)
(* __dict__ has no '__annotations__' stores an empty dict under that key,  *)
(* so the pass writes to the class and line 55 iterates the entry too.     *)
(***************************************************************************)
NoCalculators == [present |-> FALSE, table |-> <<>>]

CalculatorTable(table) == [present |-> TRUE, table |-> table]

DunderModule == <<"_", "_", "m", "o", "d", "u", "l", "e", "_", "_">>
DunderAnnotations ==
    <<"_", "_", "a", "n", "n", "o", "t", "a", "t", "i", "o", "n", "s", "_", "_">>
DunderDict == <<"_", "_", "d", "i", "c", "t", "_", "_">>
DunderWeakref == <<"_", "_", "w", "e", "a", "k", "r", "e", "f", "_", "_">>
DunderDoc == <<"_", "_", "d", "o", "c", "_", "_">>

GetSetDescriptor == [type |-> "getset_descriptor", repr |-> <<>>]
DictObject == [type |-> "dict", repr |-> <<>>]

\* c.__dict__ when the class has been defined and its calculators attached
ClassStatement(c) ==
    <<<<DunderModule, StrV(<<"m">>)>>>>
    \o (IF body[c].annotations # EmptyDict
        THEN <<<<DunderAnnotations, DictObject>>>>
        ELSE <<>>)
    \o body[c].dict
    \o (IF bases[c] = <<>>
        THEN <<<<DunderDict, GetSetDescriptor>>,
               <<DunderWeakref, GetSetDescriptor>>>>
        ELSE <<>>)
    \o <<<<DunderDoc, None>>>>
    \o (IF body[c].calculators.present
        THEN <<<<_CALCULATORS, DictObject>>>>
        ELSE <<>>)

\* what reading c.__annotations__ at line 52 does to c.__dict__
ReadAnnotations(d) ==
    IF Has(d, DunderAnnotations) THEN d
    ELSE Append(d, <<DunderAnnotations, DictObject>>)

\* c.__dict__ as it is now
ClassNow(c) == ClassStatement(c) \o class_stored[c]

\* c.__dict__ at line 55, after line 52 has read the annotations of c
ClassDict(c) == ReadAnnotations(ClassNow(c))

\* _CALCULATORS in c.__dict__
HasCalculators(c) == Has(ClassNow(c), _CALCULATORS)

\* lines 52-53
RECURSIVE CollectAnnotations(_, _)
CollectAnnotations(reg, items) ==
    IF items = <<>> THEN reg
    ELSE CollectAnnotations(
             __collect_annotation(reg, Head(items)[1], Head(items)[2]),
             Tail(items))

\* lines 55-56
RECURSIVE CollectValues(_, _)
CollectValues(reg, items) ==
    IF items = <<>> THEN reg
    ELSE CollectValues(__collect_value(reg, Head(items)[1], Head(items)[2]),
                       Tail(items))

\* lines 51-56
RECURSIVE CollectClassLoop(_, _)
CollectClassLoop(reg, cs) ==
    IF cs = <<>> THEN reg
    ELSE CollectClassLoop(
             CollectValues(
                 CollectAnnotations(reg, body[Head(cs)].annotations),
                 ClassDict(Head(cs))),
             Tail(cs))

\* lines 62-63
RECURSIVE CollectCalcList(_, _, _)
CollectCalcList(reg, k, calcs) ==
    IF calcs = <<>> THEN reg
    ELSE CollectCalcList(__collect_calculator(reg, k, Head(calcs)), k,
                         Tail(calcs))

\* mutant: no assertion that the target is a key of self.types
RECURSIVE CollectCalcTableUnchecked(_, _)
CollectCalcTableUnchecked(reg, items) ==
    IF items = <<>> THEN reg
    ELSE CollectCalcTableUnchecked(
             CollectCalcList(reg, Head(items)[1], Head(items)[2]),
             Tail(items))

\* lines 60-63
RECURSIVE CollectCalcTable(_, _)
CollectCalcTable(reg, items) ==
    IF items = <<>> \/ reg.err # NoError THEN reg
    ELSE IF ~Has(reg.types, Head(items)[1])
         THEN [reg EXCEPT !.err = AssertionError(61, Head(items)[1])]
         ELSE CollectCalcTable(
                  CollectCalcList(reg, Head(items)[1], Head(items)[2]),
                  Tail(items))

\* lines 58-63
RECURSIVE CollectCalculatorLoop(_, _)
CollectCalculatorLoop(reg, cs) ==
    IF cs = <<>> \/ reg.err # NoError THEN reg
    ELSE CollectCalculatorLoop(
             IF HasCalculators(Head(cs))
             THEN CollectCalcTable(reg, body[Head(cs)].calculators.table)
             ELSE reg,
             Tail(cs))

\* lines 65-67 (line = 66) and lines 70-72 (line = 71)
RECURSIVE CollectGiven(_, _, _)
CollectGiven(reg, items, line) ==
    IF items = <<>> \/ reg.err # NoError THEN reg
    ELSE IF ~Has(reg.types, Head(items)[1])
         THEN [reg EXCEPT !.err = AssertionError(line, Head(items)[1])]
         ELSE CollectGiven(
                  __collect_value(reg, Head(items)[1], Head(items)[2]),
                  Tail(items), line)

\* mutant: the last key of the ordered mapping
LastKey(d) == KeysOf(d)[Len(d)]

\* line 119: next(iter(d.keys()))
FirstKey(d) == KeysOf(d)[1]

\* mutant: the value is set but the option is not registered
SetNameOnly(reg, k) == [reg EXCEPT !.values = Put(reg.values, k, StrV(k))]

\* lines 123-128
SynthesizeOption(reg, k) ==
    [reg EXCEPT
        !.options = Put(reg.options, k,
                        Put(EmptyDict, k,
                            ConfigFunction(Get(reg.types, k), k, k, FALSE))),
        !.values = Put(reg.values, k, StrV(k))]

\* mutant: the options are looked at before the list-append calculators
ResolveKeyOptionsFirst(reg, k) ==
    IF Has(reg.values, k) /\ Get(reg.values, k) # None THEN reg
    ELSE IF Has(reg.options, k)
         THEN [reg EXCEPT !.values =
                   Put(reg.values, k, StrV(FirstKey(Get(reg.options, k))))]
    ELSE IF Has(reg.list_appends, k) THEN reg
    ELSE IF Get(reg.types, k).meta = "type" THEN SynthesizeOption(reg, k)
    ELSE IF Has(reg.values, k) THEN reg
    ELSE [reg EXCEPT !.err = AssertionError(131, k)]

\* lines 112-131, one iteration of the loop over self.types
ResolveKey(reg, k) ==
    IF Has(reg.values, k) /\ Get(reg.values, k) # None THEN reg
    ELSE IF Has(reg.list_appends, k) THEN reg
    ELSE IF Has(reg.options, k)
         THEN [reg EXCEPT !.values =
                   Put(reg.values, k, StrV(FirstKey(Get(reg.options, k))))]
    ELSE IF Get(reg.types, k).meta = "type" THEN SynthesizeOption(reg, k)
    ELSE IF Has(reg.values, k) THEN reg
    ELSE [reg EXCEPT !.err = AssertionError(131, k)]

\* lines 110-131
RECURSIVE __calculate_missing_values(_, _)
__calculate_missing_values(reg, ks) ==
    IF ks = <<>> \/ reg.err # NoError THEN reg
    ELSE __calculate_missing_values(ResolveKey(reg, Head(ks)), Tail(ks))

(***************************************************************************)
(* Parser.__init__, one action per stage.  An AssertionError leaves        *)
(* __init__ at once: no Parser object, hence no registry, is produced.     *)
(***************************************************************************)
Finish(reg, next) ==
    IF reg.err # NoError
    THEN /\ pc' = "raised"
         /\ err' = reg.err
         /\ types' = EmptyDict
         /\ values' = EmptyDict
         /\ options' = EmptyDict
         /\ list_appends' = EmptyDict
    ELSE /\ pc' = next
         /\ err' = NoError
         /\ types' = reg.types
         /\ values' = reg.values
         /\ options' = reg.options
         /\ list_appends' = reg.list_appends

\* lines 43-56
CollectClasses ==
    /\ pc = "classes"
    /\ classes' = _get_base_classes(configs.class)
    /\ class_stored' =
          [c \in DOMAIN class_stored |->
              IF \E i \in 1..Len(classes') : classes'[i] = c
              THEN SubSeq(ClassDict(c), Len(ClassStatement(c)) + 1,
                          Len(ClassDict(c)))
              ELSE class_stored[c]]
    /\ Finish(CollectClassLoop(EmptyRegistry, classes'), "calculators")
    /\ UNCHANGED <<inputs, run, first>>

\* lines 58-63
CollectCalculators ==
    /\ pc = "calculators"
    /\ Finish(CollectCalculatorLoop(Registry, classes), "instance")
    /\ UNCHANGED <<inputs, class_stored, classes, run, first>>

\* lines 65-67
CollectInstance ==
    /\ pc = "instance"
    /\ Finish(CollectGiven(Registry, configs.dict, 66), "values")
    /\ UNCHANGED <<inputs, class_stored, classes, run, first>>

\* lines 69-72
CollectOverrides ==
    /\ pc = "values"
    /\ Finish(IF valuesArg.is_none THEN Registry
              ELSE CollectGiven(Registry, valuesArg.items, 71),
              "missing")
    /\ UNCHANGED <<inputs, class_stored, classes, run, first>>

\* line 74
CalculateMissing ==
    /\ pc = "missing"
    /\ Finish(__calculate_missing_values(Registry, KeysOf(types)), "done")
    /\ UNCHANGED <<inputs, class_stored, classes, run, first>>

Next ==
    \/ CollectClasses
    \/ CollectCalculators
    \/ CollectInstance
    \/ CollectOverrides
    \/ CalculateMissing

(***************************************************************************)
(* A caller that resolves the same configuration object with the same      *)
(* override mapping once more (Experiment.calc_configs called again).  The *)
(* first Parser object is still there when the second is constructed.      *)
(***************************************************************************)
NoResult == [pc |-> "none", registry |-> EmptyRegistry]

ParseAgain ==
    /\ run = 1
    /\ pc \in {"done", "raised"}
    /\ run' = 2
    /\ first' = [pc |-> pc, registry |-> Registry]
    /\ pc' = "classes"
    /\ UNCHANGED <<inputs, class_stored, classes, types, values, options,
                   list_appends, err>>

NextTwice == Next \/ ParseAgain

(***************************************************************************)
(* Inputs: class hierarchies that Python accepts (a consistent C3 method    *)
(* resolution order exists for every class), class bodies, the instance    *)
(* __dict__ and the `values` argument.                                     *)
(***************************************************************************)
TypeOrder == <<"A", "B", "C", "D">>
Types == {TypeOrder[i] : i \in 1..Len(TypeOrder)}
Concrete == TypeOrder[Len(TypeOrder)]
Index(t) == CHOOSE i \in 1..Len(TypeOrder) : TypeOrder[i] = t

InSeq(e, s) == \E i \in 1..Len(s) : s[i] = e

\* sequences of distinct elements of S, of length at most n
RECURSIVE DistinctSeqs(_, _)
DistinctSeqs(S, n) ==
    IF n = 0 THEN {<<>>}
    ELSE {<<>>} \cup
         UNION {{<<e>> \o s : s \in DistinctSeqs(S \ {e}, n - 1)} : e \in S}

\* C3 merge of Python's type creation; <<"!">> when no head is acceptable
RECURSIVE C3Merge(_)
C3Merge(lists) ==
    LET ls == SelectSeq(lists, LAMBDA l : l # <<>>)
        good == {i \in 1..Len(ls) :
                    \A j \in 1..Len(ls) : ~InSeq(Head(ls[i]), Tail(ls[j]))}
    IN  IF ls = <<>> THEN <<>>
        ELSE IF good = {} THEN <<"!">>
        ELSE LET i == CHOOSE m \in good : \A n \in good : m <= n
                 h == Head(ls[i])
             IN  <<h>> \o C3Merge([j \in 1..Len(ls) |->
                                      IF Head(ls[j]) = h THEN Tail(ls[j])
                                      ELSE ls[j]])

RECURSIVE Mro(_, _)
Mro(b, c) == <<c>> \o C3Merge([i \in 1..Len(b[c]) |-> Mro(b, b[c][i])] \o <<b[c]>>)

\* the proper ancestors of c under the bases function b
RECURSIVE AncestorsIn(_, _)
AncestorsIn(b, c) ==
    {b[c][i] : i \in 1..Len(b[c])}
    \cup UNION {AncestorsIn(b, b[c][i]) : i \in 1..Len(b[c])}

ReachIn(b) == {Concrete} \cup AncestorsIn(b, Concrete)

\* bases point to classes defined earlier; classes that the concrete class
\* does not reach are left out (they have no bases and come first)
Hierarchies ==
    {b \in [Types -> DistinctSeqs(Types, MaxBases)] :
        /\ \A t \in Types : \A i \in 1..Len(b[t]) : Index(b[t][i]) < Index(t)
        /\ \A t \in Types \ ReachIn(b) :
              /\ b[t] = <<>>
              /\ \A u \in ReachIn(b) : Index(t) < Index(u)
        /\ \A t \in ReachIn(b) : ~InSeq("!", Mro(b, t))}

EmptyBody ==
    [annotations |-> EmptyDict, dict |-> EmptyDict, calculators |-> NoCalculators]

AnnTypes == {IntT, NestedT, ListIntT}
Literals == {None} \cup {IntV(n) : n \in 1..MaxVal}

\* class bodies `pass`, `k: T`, `k = v`, `k: T = v`
DeclBodies(k) ==
    {[annotations |-> a, dict |-> d, calculators |-> NoCalculators] :
        a \in {EmptyDict} \cup {<<<<k, t>>>> : t \in AnnTypes},
        d \in {EmptyDict} \cup {<<<<k, v>>>> : v \in Literals}}

CalcKinds ==
    {[option_name |-> O1, is_append |-> FALSE],
     [option_name |-> O2, is_append |-> FALSE],
     [option_name |-> O1, is_append |-> TRUE]}

\* the calculators registered, in order, for attribute k on one class
RECURSIVE KindSeqs(_)
KindSeqs(n) ==
    IF n = 0 THEN {<<>>}
    ELSE {<<>>} \cup {Append(s, c) : s \in KindSeqs(n - 1), c \in CalcKinds}

CalcSeqs(k) ==
    {[i \in 1..Len(s) |->
         ConfigFunction(Func(i), k, s[i].option_name, s[i].is_append)] :
        s \in KindSeqs(MaxCalcs) \ {<<>>}}

\* a dict with at most one entry, as instance __dict__ or as `values`
GivenDicts ==
    {EmptyDict} \cup
    {<<<<k, v>>>> : k \in {X, Y, PRIVATE, CALC}, v \in Literals}

NoValues == [is_none |-> TRUE, items |-> EmptyDict]
Values(d) == [is_none |-> FALSE, items |-> d]

Start ==
    /\ classes = <<>>
    /\ types = EmptyDict
    /\ values = EmptyDict
    /\ options = EmptyDict
    /\ list_appends = EmptyDict
    /\ pc = "classes"
    /\ err = NoError
    /\ run = 1
    /\ first = NoResult

\* declarations of one attribute spread over the hierarchy
InitDeclarations ==
    /\ bases \in Hierarchies
    /\ \E p \in ReachIn(bases), q \in ReachIn(bases) :
       \E bp \in DeclBodies(X), bq \in DeclBodies(X) :
          body = [t \in Types |-> IF t = p THEN bp
                                  ELSE IF t = q THEN bq ELSE EmptyBody]
    /\ configs = [class |-> Concrete, dict |-> EmptyDict]
    /\ valuesArg = NoValues

\* class-level, instance-level and caller-supplied values of one class
InitStages ==
    /\ bases \in {b \in Hierarchies : Cardinality(ReachIn(b)) <= 2}
    /\ \E bd \in DeclBodies(X) :
          body = [t \in Types |-> IF t = Concrete THEN bd ELSE EmptyBody]
    /\ \E d \in GivenDicts : configs = [class |-> Concrete, dict |-> d]
    /\ valuesArg \in {NoValues} \cup {Values(d) : d \in GivenDicts}

\* calculators registered on two classes of the hierarchy
InitCalculators ==
    /\ bases \in Hierarchies
    /\ \E p \in ReachIn(bases), q \in ReachIn(bases) :
       \E tp \in {NoCalculators} \cup
                 {CalculatorTable(<<<<X, s>>>>) : s \in CalcSeqs(X)},
          tq \in {NoCalculators} \cup
                 {CalculatorTable(<<<<k, <<ConfigFunction(FuncG, k, c.option_name,
                                                          c.is_append)>>>>>>) :
                     k \in {X, Y}, c \in CalcKinds} :
          body = [t \in Types |->
                    [annotations |-> IF t = Concrete THEN <<<<X, ListIntT>>>>
                                     ELSE EmptyDict,
                     dict |-> EmptyDict,
                     calculators |-> IF t = q THEN tq
                                     ELSE IF t = p THEN tp ELSE NoCalculators]]
    /\ configs = [class |-> Concrete, dict |-> EmptyDict]
    /\ valuesArg = NoValues

\* one class with two attributes: every row of the decision table of
\* __calculate_missing_values
InitResolver ==
    /\ bases = [t \in Types |-> <<>>]
    /\ \E bx \in DeclBodies(X), by \in DeclBodies(Y) :
       \E tx \in {<<>>} \cup {<<<<X, s>>>> : s \in CalcSeqs(X)},
          ty \in {<<>>, <<<<Y, <<ConfigFunction(FuncG, Y, O1, FALSE)>>>>>>,
                  <<<<PRIVATE, <<ConfigFunction(FuncG, PRIVATE, O1, FALSE)>>>>>>} :
          /\ by.dict = EmptyDict
          /\ by.annotations # <<<<Y, IntT>>>>
          /\ body = [t \in Types |->
                       IF t = Concrete
                       THEN [annotations |-> bx.annotations \o by.annotations,
                             dict |-> bx.dict,
                             calculators |-> IF tx \o ty = <<>> THEN NoCalculators
                                             ELSE CalculatorTable(tx \o ty)]
                       ELSE EmptyBody]
    /\ configs = [class |-> Concrete, dict |-> EmptyDict]
    /\ valuesArg \in {NoValues, Values(<<<<X, None>>>>), Values(<<<<X, IntV(1)>>>>)}

Init ==
    /\ Start
    /\ \/ InitDeclarations
       \/ InitStages
       \/ InitCalculators
       \/ InitResolver
    /\ class_stored = [c \in Types |-> <<>>]

Spec == Init /\ [][Next]_vars

\* the inputs of the repeated pass: those with instance values, overrides,
\* calculators and missing values; every hierarchy is among them
InitTwice ==
    /\ Start
    /\ \/ InitStages
       \/ InitCalculators
       \/ InitResolver
    /\ class_stored = [c \in Types |-> <<>>]

SpecTwice == InitTwice /\ [][NextTwice]_vars

(***************************************************************************)
(* Vocabulary of the properties, read off the inputs.                      *)
(***************************************************************************)
AttrNames == {X, Y}

Reach == ReachIn(bases)

\* a is a proper ancestor of d
Ancestor(a, d) == a \in AncestorsIn(bases, d)

Annotates(c, k) == Has(body[c].annotations, k)

SetsValue(c, k) == Has(body[c].dict, k)

\* the class of S that the collected sequence processes last
LastIn(S) ==
    classes[CHOOSE i \in 1..Len(classes) :
                /\ classes[i] \in S
                /\ \A j \in (i + 1)..Len(classes) : classes[j] \notin S]

\* the class of S that the collected sequence processes first
FirstIn(S) ==
    classes[CHOOSE i \in 1..Len(classes) :
                /\ classes[i] \in S
                /\ \A j \in 1..(i - 1) : classes[j] \notin S]

\* the class stage (lines 51-56) has run and the pass has not failed
ClassesMerged == pc \in {"calculators", "instance", "values", "missing", "done"}

(***************************************************************************)
(* C1: for an attribute annotated on two or more types of the hierarchy,   *)
(* TypeRecord holds the type declared by the most ancestral of them; a     *)
(* derived re-declaration never replaces a base declaration.               *)
(***************************************************************************)
C1_MostAncestralDeclarationWins ==
    ClassesMerged =>
        \A k \in AttrNames :
            LET decl == {c \in Reach : Annotates(c, k)}
            IN  Cardinality(decl) >= 2 =>
                    \A a \in decl :
                        (\A c \in decl \ {a} : Ancestor(a, c)) =>
                            Get(types, k) = Get(body[a].annotations, k)

(***************************************************************************)
(* C2: when a type A and a descendant D of A both set a non-null           *)
(* class-level value for an attribute, and neither the instance nor the    *)
(* caller gives one, ValueRecord after the merge pass holds the value of   *)
(* D or of a type derived from D, never that of A.                         *)
(***************************************************************************)
C2_DescendantValueWins ==
    pc = "missing" =>
        \A k \in AttrNames : \A a \in Reach : \A d \in Reach :
            ( /\ Ancestor(a, d)
              /\ SetsValue(a, k) /\ Get(body[a].dict, k) # None
              /\ SetsValue(d, k) /\ Get(body[d].dict, k) # None
              /\ ~Has(configs.dict, k)
              /\ ~Has(valuesArg.items, k) )
            => /\ Has(values, k)
               /\ \E t \in Reach :
                     /\ t = d \/ Ancestor(d, t)
                     /\ SetsValue(t, k)
                     /\ Get(values, k) = Get(body[t].dict, k)

(***************************************************************************)
(* Calculators and values as the inputs give them.                         *)
(***************************************************************************)
\* the calculators class c registers for k, in registration order
CalcsOn(c, k) ==
    IF body[c].calculators.present /\ Has(body[c].calculators.table, k)
    THEN Get(body[c].calculators.table, k)
    ELSE <<>>

OptionCalcsOn(c, k) == SelectSeq(CalcsOn(c, k), LAMBDA v : ~v.is_append)

AppendCalcsOn(c, k) == SelectSeq(CalcsOn(c, k), LAMBDA v : v.is_append)

\* no class, instance or caller gives k a value other than None
NoConcreteSource(k) ==
    /\ \A c \in Reach : SetsValue(c, k) => Get(body[c].dict, k) = None
    /\ Has(configs.dict, k) => Get(configs.dict, k) = None
    /\ Has(valuesArg.items, k) => Get(valuesArg.items, k) = None

\* no class, instance or caller mentions k as a value at all
NoSource(k) ==
    /\ \A c \in Reach : ~SetsValue(c, k)
    /\ ~Has(configs.dict, k)
    /\ ~Has(valuesArg.items, k)

\* d holds no value for k, or holds None
Unresolved(d, k) == Has(d, k) => Get(d, k) = None

\* dicts d and e agree on k
SameEntry(d, e, k) ==
    /\ Has(d, k) <=> Has(e, k)
    /\ Has(d, k) => Get(d, k) = Get(e, k)

(***************************************************************************)
(* C3: an attribute with at least one option calculator, no list-append    *)
(* calculator and no non-null value from any source resolves to the name   *)
(* of the option registered first in traversal order (classes in collected *)
(* order, then registration order within a class).                         *)
(***************************************************************************)
C3_FirstRegisteredOptionIsDefault ==
    pc = "done" =>
        \A k \in AttrNames :
            LET opt == {c \in Reach : OptionCalcsOn(c, k) # <<>>}
            IN  ( /\ opt # {}
                  /\ \A c \in Reach : AppendCalcsOn(c, k) = <<>>
                  /\ NoConcreteSource(k) )
                => /\ Has(values, k)
                   /\ Get(values, k) =
                          StrV(OptionCalcsOn(FirstIn(opt), k)[1].option_name)

\* o2 was registered before o1 and is the resolved default
C3_Witness ==
    /\ pc = "done"
    /\ NoConcreteSource(X)
    /\ Has(options, X)
    /\ KeysOf(Get(options, X)) = <<O2, O1>>
    /\ Get(values, X) = StrV(O2)

(***************************************************************************)
(* C4: an attribute declared with a primitive type such as int, with no    *)
(* value, no options and no list-append calculators, makes resolution fail *)
(* with an unresolvable-attribute error: the pass never completes.         *)
(***************************************************************************)
C4_PrimitiveWithoutValueFails ==
    pc = "done" =>
        \A k \in AttrNames :
            ~ ( /\ \E c \in Reach : Annotates(c, k)
                /\ Has(types, k) /\ Get(types, k) = IntT
                /\ NoSource(k)
                /\ \A c \in Reach : CalcsOn(c, k) = <<>> )

(***************************************************************************)
(* C5: a class-level, instance-level or caller-supplied value whose name   *)
(* is invalid is silently skipped: resolution does not raise because of    *)
(* it, and the name enters neither TypeRecord nor ValueRecord.             *)
(***************************************************************************)
C5_InvalidNamesSilentlySkipped ==
    /\ (pc = "raised" /\ err.line \in {66, 71}) => is_valid(err.key)
    /\ \A k \in KeySet(types) \cup KeySet(values) : is_valid(k)

(***************************************************************************)
(* C6: after a pass that completes without error, every attribute name in  *)
(* TypeRecord has a non-null value in ValueRecord, or an OptionTable       *)
(* entry, or a ListAppendTable entry.                                      *)
(***************************************************************************)
C6_EveryAttributeCovered ==
    pc = "done" =>
        \A k \in KeySet(types) :
            \/ Has(values, k) /\ Get(values, k) # None
            \/ Has(options, k)
            \/ Has(list_appends, k)

(***************************************************************************)
(* C7: at the end of the merge pass the value of a declared attribute is   *)
(* the caller-supplied override if there is one, otherwise the instance    *)
(* value if there is one, otherwise the class-level value (the one the     *)
(* class stage left, absent when no class sets it).                        *)
(***************************************************************************)
C7_LaterStageWins ==
    pc = "missing" =>
        \A k \in AttrNames \cap KeySet(types) :
            LET setters == {c \in Reach : SetsValue(c, k)}
            IN  IF Has(valuesArg.items, k)
                THEN Has(values, k) /\ Get(values, k) = Get(valuesArg.items, k)
                ELSE IF Has(configs.dict, k)
                THEN Has(values, k) /\ Get(values, k) = Get(configs.dict, k)
                ELSE IF setters # {}
                THEN /\ Has(values, k)
                     /\ Get(values, k) = Get(body[LastIn(setters)].dict, k)
                ELSE ~Has(values, k)

\* class, instance and caller give three different values; the caller's is kept
C7_Witness ==
    /\ pc = "missing"
    /\ SetsValue(Concrete, X) /\ Has(configs.dict, X) /\ Has(valuesArg.items, X)
    /\ Get(body[Concrete].dict, X) # Get(configs.dict, X)
    /\ Get(configs.dict, X) # Get(valuesArg.items, X)
    /\ Get(body[Concrete].dict, X) # Get(valuesArg.items, X)
    /\ Get(values, X) = Get(valuesArg.items, X)

(***************************************************************************)
(* C8 as stated: an attribute whose declared type is a nested              *)
(* configuration type, with no non-null value and no registered options,   *)
(* ends resolution with exactly one option, named after the attribute,     *)
(* non-append and built from the declared type, and with that name as its  *)
(* value.                                                                  *)
(***************************************************************************)
SynthesizedOption(k) == <<<<k, ConfigFunction(NestedT, k, k, FALSE)>>>>

C8_NestedTypeSynthesizesOption ==
    [][(pc = "missing" /\ pc' = "done") =>
          \A k \in KeySet(types) :
              ( /\ Get(types, k) = NestedT
                /\ Unresolved(values, k)
                /\ ~Has(options, k) )
              => /\ Has(options', k)
                 /\ Get(options', k) = SynthesizedOption(k)
                 /\ Has(values', k)
                 /\ Get(values', k) = StrV(k)]_vars

(***************************************************************************)
(* C8 amended: the same, for an attribute that also has no list-append     *)
(* calculators registered.                                                 *)
(***************************************************************************)
C8_NestedTypeWithoutAppendsSynthesizesOption ==
    [][(pc = "missing" /\ pc' = "done") =>
          \A k \in KeySet(types) :
              ( /\ Get(types, k) = NestedT
                /\ Unresolved(values, k)
                /\ ~Has(options, k)
                /\ ~Has(list_appends, k) )
              => /\ Has(options', k)
                 /\ Get(options', k) = SynthesizedOption(k)
                 /\ Has(values', k)
                 /\ Get(values', k) = StrV(k)]_vars

\* x: NestedConfigs with nothing else resolved to the synthesized option "x"
C8_Witness ==
    /\ pc = "done"
    /\ \E c \in Reach : Annotates(c, X) /\ Get(body[c].annotations, X) = NestedT
    /\ NoConcreteSource(X)
    /\ \A c \in Reach : CalcsOn(c, X) = <<>>
    /\ Get(types, X) = NestedT
    /\ Get(options, X) = SynthesizedOption(X)
    /\ Get(values, X) = StrV(X)

(***************************************************************************)
(* C9: an attribute with a list-append calculator and no non-null value    *)
(* never makes resolution fail, and resolution leaves its ValueRecord      *)
(* entry (absent or None) and its OptionTable entry as they were, whether  *)
(* or not it also has options and whatever its declared type.              *)
(***************************************************************************)
C9_ListAppendLeftUnresolved ==
    [][pc = "missing" =>
          \A k \in KeySet(types) :
              (Has(list_appends, k) /\ Unresolved(values, k))
              => /\ pc' = "raised" => err'.key # k
                 /\ pc' = "done" =>
                       /\ SameEntry(values, values', k)
                       /\ Unresolved(values', k)
                       /\ SameEntry(options, options', k)
                       /\ SameEntry(list_appends, list_appends', k)]_vars

\* x has a list-append calculator and options, and stays without a value
C9_Witness ==
    /\ pc = "done"
    /\ Has(list_appends, X)
    /\ Has(options, X)
    /\ ~Has(values, X)

(***************************************************************************)
(* C10: if a class of the hierarchy carries a calculator for a name that   *)
(* is not a key of TypeRecord when calculators are collected, the pass     *)
(* aborts with a declaration error and produces no registry; otherwise     *)
(* every calculator is registered and the stage does not fail.             *)
(***************************************************************************)
CalculatorTargets ==
    UNION {KeySet(body[classes[i]].calculators.table) : i \in 1..Len(classes)}

C10_UndeclaredCalculatorTargetAborts ==
    [][pc = "calculators" =>
          IF \E k \in CalculatorTargets : ~Has(types, k)
          THEN /\ pc' = "raised"
               /\ err'.line = 61
               /\ err'.key \in CalculatorTargets /\ ~Has(types, err'.key)
               /\ types' = EmptyDict /\ values' = EmptyDict
               /\ options' = EmptyDict /\ list_appends' = EmptyDict
          ELSE /\ pc' = "instance"
               /\ \A c \in Reach : \A k \in CalculatorTargets :
                  \A i \in 1..Len(CalcsOn(c, k)) :
                     LET v == CalcsOn(c, k)[i]
                     IN  IF v.is_append
                         THEN /\ Has(list_appends', k)
                              /\ InSeq(v, Get(list_appends', k))
                         ELSE /\ Has(options', k)
                              /\ Has(Get(options', k), v.option_name)]_vars

\* a calculator registered for a name that no class declares stopped the pass
C10_Witness ==
    /\ pc = "raised"
    /\ err.line = 61
    /\ \E c \in Reach : CalcsOn(c, err.key) # <<>>
    /\ \A c \in Reach : ~Annotates(c, err.key) /\ ~SetsValue(c, err.key)

(***************************************************************************)
(* C11: resolving the same configuration object with the same override     *)
(* mapping a second time ends as the first pass did, with identical        *)
(* TypeRecord, ValueRecord, OptionTable and ListAppendTable, although the  *)
(* second pass finds the classes as the first pass left them; and no step  *)
(* of a pass changes what the classes declare (annotations, valid-named    *)
(* values, calculator tables), the instance values or the override         *)
(* mapping.                                                                *)
(***************************************************************************)
\* what class c declares when its __dict__ is d
Declared(c, d) ==
    [annotations |-> IF Has(d, DunderAnnotations)
                     THEN body[c].annotations ELSE EmptyDict,
     values |-> SelectSeq(d, LAMBDA e : is_valid(e[1])),
     calculators |-> IF Has(d, _CALCULATORS)
                     THEN body[c].calculators.table ELSE EmptyDict]

\* the first pass has written to the __dict__ of some class
ClassesWritten == \E c \in Reach : class_stored[c] # <<>>

RECURSIVE FirstOccurrences(_)
FirstOccurrences(s) ==
    IF s = <<>> THEN <<>>
    ELSE LET front == FirstOccurrences(SubSeq(s, 1, Len(s) - 1))
         IN  IF InSeq(s[Len(s)], front) THEN front
             ELSE Append(front, s[Len(s)])

Occurrences(s, e) == Cardinality({i \in 1..Len(s) : s[i] = e})

\* the pass of Parser.__init__ with both class loops run over cs
ResolveOver(cs) ==
    LET declared == CollectClassLoop(EmptyRegistry, cs)
        calculated == CollectCalculatorLoop(declared, cs)
        instance == CollectGiven(calculated, configs.dict, 66)
        given == IF valuesArg.is_none THEN instance
                 ELSE CollectGiven(instance, valuesArg.items, 71)
    IN  __calculate_missing_values(given, KeysOf(given.types))

C12_RepeatedTypesChangeNothing ==
    (pc = "done" /\ FirstOccurrences(classes) # classes) =>
        /\ Registry = ResolveOver(FirstOccurrences(classes))
        /\ \A c \in Reach : \A k \in AttrNames :
              Occurrences(classes, c) > 1 =>
                 \A i \in 1..Len(AppendCalcsOn(c, k)) :
                    /\ Has(list_appends, k)
                    /\ Occurrences(Get(list_appends, k),
                                   AppendCalcsOn(c, k)[i]) = 1

(***************************************************************************)
(* C13: registering a non-append calculator for an attribute under an      *)
(* option name that the attribute's OptionTable already holds raises no    *)
(* error, stores the later calculator under that name and leaves the name  *)
(* where it was: the option names are the registered names in order of     *)
(* first registration, and the default option name, the first one, is the  *)
(* name registered first.                                                  *)
(***************************************************************************)
\* the non-append calculators registered for k, in the order in which the
\* calculator loop reaches them
RegisteredOptions(k) ==
    Flatten([i \in 1..Len(classes) |-> OptionCalcsOn(classes[i], k)])

OptionNames(regs) == [i \in 1..Len(regs) |-> regs[i].option_name]

\* some option name is registered for k more than once
RegisteredAgain(k) ==
    FirstOccurrences(OptionNames(RegisteredOptions(k)))
        # OptionNames(RegisteredOptions(k))

LastRegistered(regs, name) ==
    regs[CHOOSE i \in 1..Len(regs) :
            /\ regs[i].option_name = name
            /\ \A j \in (i + 1)..Len(regs) : regs[j].option_name # name]

C13_ReRegistrationKeepsPosition ==
    [][(/\ pc = "calculators"
        /\ \A k \in CalculatorTargets : Has(types, k)) =>
          \A k \in AttrNames :
             RegisteredAgain(k) =>
                LET regs == RegisteredOptions(k)
                IN  /\ pc' = "instance"
                    /\ err' = NoError
                    /\ Has(options', k)
                    /\ KeysOf(Get(options', k))
                          = FirstOccurrences(OptionNames(regs))
                    /\ FirstKey(Get(options', k)) = regs[1].option_name
                    /\ \A i \in 1..Len(regs) :
                          Get(Get(options', k), regs[i].option_name)
                             = LastRegistered(regs, regs[i].option_name)]_vars

\* the first of two option names was registered again with another
\* calculator, which is the one stored, and is still the first
C13_Witness ==
    /\ pc = "instance"
    /\ Has(options, X)
    /\ Len(Get(options, X)) = 2
    /\ LET regs == RegisteredOptions(X)
           name == FirstKey(Get(options, X))
       IN  /\ Len(regs) = 3
           /\ regs[1].option_name = name
           /\ regs[3].option_name = name
           /\ regs[3] # regs[1]
           /\ Get(Get(options, X), name) = regs[3]

(***************************************************************************)
(* C14: the sequence collected for the concrete type contains every        *)
(* ancestor of the concrete type except object, ends with the concrete     *)
(* type, and is ordered base to derived: every occurrence of a proper      *)
(* ancestor A of a type B comes before every occurrence of B.              *)
(***************************************************************************)
C14_CollectedBaseToDerived ==
    pc # "classes" =>
        /\ {classes[i] : i \in 1..Len(classes)} = Reach
        /\ classes[Len(classes)] = Concrete
        /\ \A i \in 1..Len(classes) : \A j \in 1..Len(classes) :
              Ancestor(classes[i], classes[j]) => i < j

====
